---- MODULE Spec2Model ----
(***************************************************************************)
(* Model of the ELE LLC members directory utilities:                       *)
(*   ele_members_json_scraper.py  (ELEMembersJSONScraper, Member)          *)
(*   ele_members_scraper.py       (ELEMembersScraper, create_api_app)      *)
(*   railway_deploy.py            (initialize_scraper and the /clay routes)*)
(*                                                                         *)
(* Python str values are sequences of symbols (one-character strings, or   *)
(* whole words where the code never looks inside them).  Optional[str] is  *)
(* such a sequence or the value None.                                      *)
(***************************************************************************)
EXTENDS Integers, Sequences, FiniteSets, TLC

VARIABLES
    op,            \* position of the caller of a pure function: "start" | "done"
    arg,           \* the argument(s) of the call
    ret            \* the value returned by the call

pureVars == <<op, arg, ret>>

VARIABLES
    mode,            \* which program runs: "railway" (railway_deploy.py), or a caller
                     \* of one scraper class: "json" | "markup"
    scraper,         \* railway_deploy.scraper: 0 is None, else the instance
    inst_members,    \* self.members of every scraper instance constructed so far
    members_data,    \* railway_deploy.members_data
    pc,              \* where each thread (request, or caller) stands
    req,             \* the request a thread is handling
    self,            \* the instance a thread's scrape_all_members runs on
    scraper_members, \* the local of initialize_scraper: the list scrape_all_members returned
    idx,             \* the position of the loop of lines 28-44
    resp,            \* the last response a thread sent
    started,         \* how many times scrape_all_members has been entered
    run              \* the last finished call of scrape_all_members

mainVars == <<mode, scraper, inst_members, members_data, pc, req, self, scraper_members, idx,
              resp, started, run>>

vars == <<pureVars, mainVars>>

\* no program runs: a pure function is being called
NoProgram ==
    /\ mode = "off"
    /\ scraper = 0
    /\ inst_members = <<>>
    /\ members_data = <<>>
    /\ pc = <<>>
    /\ req = <<>>
    /\ self = <<>>
    /\ scraper_members = <<>>
    /\ idx = <<>>
    /\ resp = <<>>
    /\ started = 0
    /\ run = <<>>

\* no pure function is being called: a program runs
NoCall ==
    /\ op = "off"
    /\ arg = <<>>
    /\ ret = <<>>

----------------------------------------------------------------------------
(* Bounds of the model *)

MaxLen == 4        \* longest position / display_name string that is enumerated

----------------------------------------------------------------------------
(* Python values *)

\* Python's None for an Optional[str]; it is not a sequence of characters.
None == <<"None">>

\* bool(x) for an Optional[str]
IsTrue(x) == x # None /\ x # <<>>

\* x or d
Or(x, d) == IF IsTrue(x) THEN x ELSE d

\* a JSON value as delivered in member_data: a string, a number, a list of
\* strings, or a key that is not there
Str(s)  == [k |-> "str", s |-> s, l |-> <<>>]
Num     == [k |-> "int", s |-> <<>>, l |-> <<>>]
List(l) == [k |-> "list", s |-> <<>>, l |-> l]
Missing == [k |-> "missing", s |-> <<>>, l |-> <<>>]

\* dict.get(key, default)
Get(v, default) == IF v.k = "missing" THEN default ELSE v

\* bool(v) of a JSON value: non-empty string, non-empty list, non-zero number
Truthy(v) ==
    CASE v.k = "str"  -> v.s # <<>>
      [] v.k = "list" -> v.l # <<>>
      [] v.k = "int"  -> TRUE
      [] OTHER        -> FALSE

Whitespace == {" "}

RECURSIVE LStrip(_)
LStrip(s) == IF s # <<>> /\ Head(s) \in Whitespace THEN LStrip(Tail(s)) ELSE s

RECURSIVE RStrip(_)
RStrip(s) ==
    IF s # <<>> /\ s[Len(s)] \in Whitespace THEN RStrip(SubSeq(s, 1, Len(s) - 1)) ELSE s

\* str.strip()
Strip(s) == RStrip(LStrip(s))

\* str.lower(): the upper-case letters of the alphabet map to lower case
Lower(s) ==
    [i \in 1..Len(s) |->
        CASE s[i] = "A" -> "a"
          [] s[i] = "B" -> "b"
          [] OTHER      -> s[i]]

\* sub in s
Contains(s, sub) ==
    \E i \in 0..(Len(s) - Len(sub)) : SubSeq(s, i + 1, i + Len(sub)) = sub

\* str.find(c) from position i on; 0 when c does not occur
RECURSIVE FindFrom(_, _, _)
FindFrom(s, c, i) ==
    IF i > Len(s) THEN 0
    ELSE IF s[i] = c THEN i ELSE FindFrom(s, c, i + 1)

\* the mutant of Split1: rsplit, which cuts at the last separator
RSplit1(s, c) ==
    LET at == IF \E i \in 1..Len(s) : s[i] = c
              THEN CHOOSE i \in 1..Len(s) : s[i] = c /\ \A j \in (i + 1)..Len(s) : s[j] # c
              ELSE 0
    IN  IF at = 0 THEN <<s>> ELSE <<SubSeq(s, 1, at - 1), SubSeq(s, at + 1, Len(s))>>

\* s.split(c, 1): at most one cut, at the first separator
Split1(s, c) ==
    LET at == FindFrom(s, c, 1)
    IN  IF at = 0 THEN <<s>> ELSE <<SubSeq(s, 1, at - 1), SubSeq(s, at + 1, Len(s))>>

\* sep.join(items)
RECURSIVE Join(_, _)
Join(sep, items) ==
    IF items = <<>> THEN <<>>
    ELSE IF Len(items) = 1 THEN items[1]
    ELSE items[1] \o sep \o Join(sep, Tail(items))

----------------------------------------------------------------------------
(* json.loads on the texts the directory embeds: a text is a sequence of    *)
(* tokens; an array is "[" item ("," item)* "]" or "[" "]"; a lone number   *)
(* is a number; anything else is malformed.                                 *)

JsonStructural == {"[", "]", ","}
JsonNumbers == {"5"}
\* object literals that occur as array items, and the value under their
\* 'linkedin' key (None: no such key)
JsonObjects == {"{linkedin:U}", "{linkedin:}", "{twitter:T}"}

IsJsonArray(t) ==
    /\ Len(t) >= 2
    /\ t[1] = "["
    /\ t[Len(t)] = "]"
    /\ \/ Len(t) = 2
       \/ /\ Len(t) % 2 = 1
          /\ \A i \in 2..(Len(t) - 1) :
                IF i % 2 = 0 THEN t[i] \notin JsonStructural ELSE t[i] = ","

\* the result of json.loads(t): exc is the exception raised ("" for none)
json_loads(t) ==
    IF IsJsonArray(t)
    THEN [exc |-> "", k |-> "list", l |-> [i \in 1..((Len(t) - 1) \div 2) |-> t[2 * i]]]
    ELSE IF Len(t) = 1 /\ t[1] \in JsonNumbers
    THEN [exc |-> "", k |-> "int", l |-> <<>>]
    ELSE [exc |-> "JSONDecodeError", k |-> "list", l |-> <<>>]

EmptyList == [exc |-> "", k |-> "list", l |-> <<>>]

----------------------------------------------------------------------------
(* ele_members_json_scraper.py *)

base_url == <<"https://www.ele.llc">>

\* the dataclass Member, with its defaults
Member(name, title, company, email, linkedin, profile_url, member_type, badges) ==
    [name |-> name, title |-> title, company |-> company, location |-> None,
     email |-> email, phone |-> None, linkedin |-> linkedin, website |-> None,
     bio |-> None, profile_url |-> profile_url, member_type |-> member_type,
     badges |-> badges]

\* parse_member returning None
NoMember == [name |-> None]

role_priority ==
    << <<"ele_industry_legend", "Industry Legend">>,
       <<"ele_executive", "Executive">>,
       <<"ele_cdo", "CDO">>,
       <<"ele_ambassador", "Ambassador">>,
       <<"ele_producer", "Producer">>,
       <<"contributor", "Contributor">>,
       <<"ele_tmec", "TMEC">>,
       <<"ele_onboarding_buddy", "Onboarding Buddy">>,
       <<"rcp_partner_member", "Partner Member">>,
       <<"rcp_ele_member", "ELE Member">>,
       <<"rcp_online-only_member", "Online-Only Member">>,
       <<"invited", "Invited">>,
       <<"subscriber", "Subscriber">>,
       <<"member", "Member">> >>

InList(x, l) == \E i \in 1..Len(l) : l[i] = x

\* the label the table gives to a role identifier (<<>>: not in the table)
LabelOf(role) ==
    LET hits == {k \in 1..Len(role_priority) : role_priority[k][1] = role}
    IN  IF hits = {} THEN <<>> ELSE <<role_priority[CHOOSE k \in hits : TRUE][2]>>

\* the mutant of FirstPriority: the scan follows the input list, from item i on
RECURSIVE FirstInInput(_, _)
FirstInInput(roles, i) ==
    IF i > Len(roles) THEN <<>>
    ELSE IF LabelOf(roles[i]) # <<>> THEN LabelOf(roles[i])
    ELSE FirstInInput(roles, i + 1)

\* the loop over role_priority.items(), from entry i on
RECURSIVE FirstPriority(_, _)
FirstPriority(roles, i) ==
    IF i > Len(role_priority) THEN <<>>
    ELSE IF InList(role_priority[i][1], roles) THEN <<role_priority[i][2]>>
    ELSE FirstPriority(roles, i + 1)

\* determine_member_type(roles); roles is a decoded JSON value.
\* [exc, v]: the exception that escapes, or the label returned
determine_member_type(roles) ==
    IF roles.k = "list" /\ roles.l = <<>> THEN [exc |-> "", v |-> <<"Standard Member">>]
    ELSE IF roles.k # "list" THEN [exc |-> "TypeError", v |-> None]   \* role_key in 5
    ELSE LET hit == FirstPriority(roles.l, 1)
         IN  IF hit # <<>> THEN [exc |-> "", v |-> hit]
             ELSE IF \E i \in 1..Len(roles.l) : roles.l[i] \in JsonObjects
             THEN [exc |-> "TypeError", v |-> None]                  \* ', '.join of a dict
             ELSE [exc |-> "", v |-> Join(<<", ">>, [i \in 1..Len(roles.l) |-> <<roles.l[i]>>])]

\* social['linkedin'] for an item of the socials array; None when the item is
\* no dict or has no such key
LinkedinOf(item) ==
    CASE item = "{linkedin:U}" -> <<"U">>
      [] item = "{linkedin:}"  -> <<>>
      [] OTHER                 -> None

\* the loop over socials (lines 110-114): linkedin so far, items left
RECURSIVE ScanSocials(_, _)
ScanSocials(linkedin, items) ==
    IF items = <<>> THEN linkedin
    ELSE LET v == LinkedinOf(Head(items))
         IN  IF v = None THEN ScanSocials(linkedin, Tail(items))
             ELSE IF v # <<>> THEN v
             ELSE ScanSocials(v, Tail(items))

\* lines 106-116: the linkedin value after the try block
ExtractLinkedin(md) ==
    LET socials_str == Get(md.socials, Str(<<"[", "]">>))
        socials == IF ~Truthy(socials_str) THEN EmptyList
                   ELSE IF socials_str.k # "str"
                   THEN [exc |-> "TypeError", k |-> "list", l |-> <<>>]
                   ELSE json_loads(socials_str.s)
    IN  IF socials.exc # "" THEN None            \* except: pass
        ELSE IF socials.k # "list" THEN None     \* for social in 5: TypeError, except: pass
        ELSE ScanSocials(None, socials.l)

\* lines 123-128: roles after the try block
ExtractRoles(md) ==
    LET role_cap_str == Get(md.role_cap, Str(<<"[", "]">>))
        roles == IF ~Truthy(role_cap_str) THEN EmptyList
                 ELSE IF role_cap_str.k # "str"
                 THEN [exc |-> "TypeError", k |-> "list", l |-> <<>>]
                 ELSE json_loads(role_cap_str.s)
    IN  IF roles.exc # "" THEN EmptyList ELSE roles

\* lines 91-103: <<exc, title, company>>
SplitPosition(position) ==
    IF ~Truthy(position) THEN [exc |-> "", title |-> None, company |-> None]
    ELSE IF position.k # "str"
    THEN [exc |-> "TypeError", title |-> None, company |-> None]     \* '@' in 5
    ELSE IF InList("@", position.s)
    THEN LET parts == Split1(position.s, "@")
         IN  [exc |-> "", title |-> Strip(parts[1]), company |-> Strip(parts[2])]
    ELSE [exc |-> "", title |-> position.s, company |-> None]

\* lines 119-120: [exc, v]
JoinBadges(md) ==
    LET badges == Get(md.badges, List(<<>>))
    IN  IF ~Truthy(badges) THEN [exc |-> "", v |-> None]
        ELSE IF badges.k # "list" THEN [exc |-> "TypeError", v |-> None]
        ELSE [exc |-> "", v |-> Join(<<", ">>, badges.l)]

\* the mutant of MemberName: the name is trimmed
MemberNameStripped(name) == Strip(name.s)

\* line 138: the name given to the Member
MemberName(name) == name.s

\* the body of parse_member's try block: [exc, v]
parse_member_try(md) ==
    LET name == Get(md.display_name, Str(<<>>))
    IN  IF ~Truthy(name) THEN [exc |-> "", v |-> NoMember]
        ELSE
        LET email == Get(md.user_email, Str(<<>>))
            pos == SplitPosition(Get(md.position, Str(<<>>)))
            linkedin == ExtractLinkedin(md)
            badges_str == JoinBadges(md)
            member_type == determine_member_type(ExtractRoles(md))
            user_nicename == Get(md.user_nicename, Str(<<>>))
            profile_url == IF Truthy(user_nicename)
                           THEN base_url \o <<"/members/">> \o user_nicename.s
                           ELSE None
        IN  IF pos.exc # "" THEN [exc |-> pos.exc, v |-> NoMember]
            ELSE IF badges_str.exc # "" THEN [exc |-> badges_str.exc, v |-> NoMember]
            ELSE IF member_type.exc # "" THEN [exc |-> member_type.exc, v |-> NoMember]
            ELSE [exc |-> "",
                  v |-> Member(MemberName(name), pos.title, pos.company,
                               Or(email.s, None), Or(linkedin, None), profile_url,
                               member_type.v, badges_str.v)]

\* parse_member(member_data): every Exception of the body is caught (line 150)
parse_member(md) ==
    LET r == parse_member_try(md)
    IN  IF r.exc # "" THEN NoMember ELSE r.v

----------------------------------------------------------------------------
(* Inputs of parse_member *)

RawMember(dn, pos, soc, bad, rc, em, nn) ==
    [display_name |-> dn, position |-> pos, socials |-> soc, badges |-> bad,
     role_cap |-> rc, user_email |-> em, user_nicename |-> nn]

PosChars == {"A", " ", "@"}

\* all strings over cs of length at most n
StringsUpTo(cs, n) == UNION {[1..k -> cs] : k \in 0..n}

DisplayNames ==
    {Missing, Str(<<>>), Str(<<" ">>), Str(<<"A">>), Str(<<" ", "A", " ">>),
     Str(<<"A", " ", "B">>)}

SocialsValues ==
    {Missing, Num, Str(<<"[">>), Str(<<"5">>),
     Str(<<"[", "{twitter:T}", ",", "{linkedin:}", ",", "{linkedin:U}", "]">>)}

BadgesValues == {Missing, Num, List(<<>>), List(<< <<"Influencer">>, <<"Ambassador">> >>)}

RoleCapValues ==
    {Missing, Str(<<"5">>), Str(<<"[">>), Str(<<"[", "member", ",", "ele_ambassador", "]">>),
     Str(<<"[", "unknown_role_x", "]">>)}

\* the position strings of the documented examples
ExamplePositions ==
    {<<"A", " ", "@", " ", "B", " ", "@", " ", "C">>,
     <<"Engineer", " ", "@", " ", "Acme", " ", "Corp">>,
     <<"Engineer">>}

PositionCases ==
    {RawMember(dn, Str(p), Missing, Missing, Missing, Missing, Missing) :
        dn \in DisplayNames, p \in StringsUpTo(PosChars, MaxLen) \cup ExamplePositions}

FieldCases ==
    {RawMember(dn, pos, soc, bad, rc, em, nn) :
        dn \in DisplayNames, pos \in {Missing, Num, Str(<<"A", "@", "B">>)},
        soc \in SocialsValues, bad \in BadgesValues, rc \in RoleCapValues,
        em \in {Missing, Str(<<"a", "@", "b">>)}, nn \in {Missing, Str(<<"al">>)}}

RawMembers == PositionCases \cup FieldCases

----------------------------------------------------------------------------
(* The caller of parse_member *)

InitParse ==
    /\ op = "start"
    /\ arg \in RawMembers
    /\ ret = NoMember
    /\ NoProgram

\* member = self.parse_member(member_data)
ParseMember ==
    /\ op = "start"
    /\ ret' = parse_member(arg)
    /\ op' = "done"
    /\ UNCHANGED <<arg, mainVars>>

NextParse == ParseMember

SpecParse == InitParse /\ [][NextParse]_vars

----------------------------------------------------------------------------
(* railway_deploy.py: the conversion of a Member to a Clay dictionary *)

\* str.replace(old, new) for a one-character old; new is a string
RECURSIVE Replace(_, _, _)
Replace(s, old, new) ==
    IF s = <<>> THEN <<>>
    ELSE (IF Head(s) = old THEN new ELSE <<Head(s)>>) \o Replace(Tail(s), old, new)

\* lines 29-44: the dictionary appended to members_data for one Member
ClayDict(member) ==
    [id |-> Replace(Replace(Lower(member.name), " ", <<"-">>), "'", <<>>),
     name |-> member.name,
     title |-> Or(member.title, <<>>),
     company |-> Or(member.company, <<>>),
     location |-> Or(member.location, <<>>),
     email |-> Or(member.email, <<>>),
     phone |-> Or(member.phone, <<>>),
     linkedin_url |-> Or(member.linkedin, <<>>),
     website_url |-> Or(member.website, <<>>),
     bio |-> Or(member.bio, <<>>),
     profile_url |-> Or(member.profile_url, <<>>),
     member_type |-> Or(member.member_type, <<"Standard Member">>),
     badges |-> Or(member.badges, <<>>),
     source |-> <<"ELE LLC Directory">>]

----------------------------------------------------------------------------
(* The search handlers *)

\* what a handler returns: the HTTP status, the explanatory message of the
\* body (None when the body has none), whether a result list was computed
\* from the members, and that list
Response(status, message, searched, results) ==
    [status |-> status, message |-> message, searched |-> searched, results |-> results]

\* request.args.get('q', '').lower()
QueryArg(q) == Lower(Get(q, Str(<<>>)).s)

\* railway_deploy.py line 88: the condition of the list comprehension
ClayMatches(m, query) ==
    \/ Contains(Lower(m.name), query)
    \/ Contains(Lower(m.title), query)

RECURSIVE ClayFilter(_, _)
ClayFilter(members, query) ==
    IF members = <<>> THEN <<>>
    ELSE (IF ClayMatches(Head(members), query) THEN <<Head(members)>> ELSE <<>>)
         \o ClayFilter(Tail(members), query)

\* clay_search_members, after members = initialize_scraper()
clay_search_members(members, q) ==
    LET query == QueryArg(q)
    IN  IF query = <<>> THEN Response(400, None, FALSE, <<>>)
        ELSE Response(200, None, TRUE, ClayFilter(members, query))

\* the dataclass Member of ele_members_scraper.py
MarkupMember(name, title, company, location, email, phone, linkedin, website, bio, profile_url) ==
    [name |-> name, title |-> title, company |-> company, location |-> location,
     email |-> email, phone |-> phone, linkedin |-> linkedin, website |-> website,
     bio |-> bio, profile_url |-> profile_url]

\* the dictionary the API builds for one member (lines 428-439)
ApiDict(member) ==
    [name |-> member.name, title |-> member.title, company |-> member.company,
     location |-> member.location, email |-> member.email, phone |-> member.phone,
     linkedin |-> member.linkedin, website |-> member.website, bio |-> member.bio,
     profile_url |-> member.profile_url]

\* ele_members_scraper.py lines 424-427
ApiMatches(member, query) ==
    \/ Contains(Lower(member.name), query)
    \/ (IsTrue(member.title) /\ Contains(Lower(member.title), query))
    \/ (IsTrue(member.company) /\ Contains(Lower(member.company), query))
    \/ (IsTrue(member.location) /\ Contains(Lower(member.location), query))

RECURSIVE ApiFilter(_, _)
ApiFilter(members, query) ==
    IF members = <<>> THEN <<>>
    ELSE (IF ApiMatches(Head(members), query) THEN <<ApiDict(Head(members))>> ELSE <<>>)
         \o ApiFilter(Tail(members), query)

\* search_members of create_api_app, over scraper.members
search_members(members, q) ==
    LET query == QueryArg(q)
    IN  IF query = <<>> THEN Response(400, <<"Query parameter required">>, FALSE, <<>>)
        ELSE Response(200, None, TRUE, ApiFilter(members, query))

----------------------------------------------------------------------------
(* Inputs of the search handlers *)

MaxMembers == 2    \* longest member list that is searched
MaxQuery == 2      \* longest query string

SeqsUpTo(S, n) == UNION {[1..k -> S] : k \in 0..n}

Queries == {Missing} \cup {Str(s) : s \in StringsUpTo({"a", "B"}, MaxQuery)}

SearchNames == {<<"b">>, <<"B", "a">>}
SearchTitles == {None, <<"a">>}
SearchCompanies == {None, <<"a", "B">>}
SearchLocations == {None, <<"A", "a">>}

\* what initialize_scraper makes of the JSON scraper's members: no location
JsonSearchMembers ==
    {ClayDict(Member(n, t, c, None, None, None, <<"Standard Member">>, None)) :
        n \in SearchNames, t \in SearchTitles, c \in SearchCompanies}

MarkupSearchMembers ==
    {MarkupMember(n, t, c, l, None, None, None, None, None, None) :
        n \in SearchNames, t \in SearchTitles \cup {<<>>}, c \in SearchCompanies,
        l \in SearchLocations}

InitSearch ==
    /\ op = "start"
    /\ \/ arg \in [handler : {"clay"}, members : SeqsUpTo(JsonSearchMembers, MaxMembers),
                   q : Queries]
       \/ arg \in [handler : {"api"}, members : SeqsUpTo(MarkupSearchMembers, MaxMembers),
                   q : Queries]
    /\ ret = Response(0, None, FALSE, <<>>)
    /\ NoProgram

\* GET /clay/members/search
ClaySearch ==
    /\ op = "start"
    /\ arg.handler = "clay"
    /\ ret' = clay_search_members(arg.members, arg.q)
    /\ op' = "done"
    /\ UNCHANGED <<arg, mainVars>>

\* GET /api/members/search
ApiSearch ==
    /\ op = "start"
    /\ arg.handler = "api"
    /\ ret' = search_members(arg.members, arg.q)
    /\ op' = "done"
    /\ UNCHANGED <<arg, mainVars>>

NextSearch == ClaySearch \/ ApiSearch

SpecSearch == InitSearch /\ [][NextSearch]_vars

----------------------------------------------------------------------------
(* A caller of determine_member_type with a decoded role list *)

MaxRoles == 3      \* longest role list that is enumerated

\* identifiers that are in no entry of role_priority
UnknownRoles == {"unknown_role_x", "editor"}

RoleIds == {role_priority[k][1] : k \in 1..Len(role_priority)} \cup UnknownRoles

RoleLists == SeqsUpTo(RoleIds, MaxRoles)

InitRoles ==
    /\ op = "start"
    /\ arg \in RoleLists
    /\ ret = [exc |-> "", v |-> None]
    /\ NoProgram

\* member_type = self.determine_member_type(roles)
DetermineMemberType ==
    /\ op = "start"
    /\ ret' = determine_member_type([exc |-> "", k |-> "list", l |-> arg])
    /\ op' = "done"
    /\ UNCHANGED <<arg, mainVars>>

NextRoles == DetermineMemberType

SpecRoles == InitRoles /\ [][NextRoles]_vars

----------------------------------------------------------------------------
(* Exceptions *)

RequestExceptions == {"ConnectionError", "Timeout", "HTTPError"}

\* isinstance(exc, cls) for the classes the except clauses name
IsInstance(exc, cls) ==
    CASE cls = "Exception"        -> TRUE
      [] cls = "RequestException" -> exc \in RequestExceptions
      [] OTHER                    -> exc = cls

----------------------------------------------------------------------------
(* ELEMembersJSONScraper.scrape_all_members *)

\* What the site answers to one GET of /members: the exception session.get or
\* raise_for_status raises ("" for a 2xx answer), whether the page has the
\* __NEXT_DATA__ script, whether its text is JSON, and the raw member objects
\* at props.pageProps.members.
Site(fetch, script, json_ok, raw) ==
    [fetch |-> fetch, script |-> script, json_ok |-> json_ok, raw |-> raw]

\* lines 69-72: the members appended for the raw objects
RECURSIVE ParseAll(_)
ParseAll(raw) ==
    IF raw = <<>> THEN <<>>
    ELSE LET member == parse_member(Head(raw))
         IN  (IF member # NoMember THEN <<member>> ELSE <<>>) \o ParseAll(Tail(raw))

\* the result of a call: the exception that escapes ("" for none), whether the
\* list returned is self.members itself (else it is the list val), and
\* self.members after the call
Returned(exc, is_self, val, self_members) ==
    [exc |-> exc, is_self |-> is_self, val |-> val, members |-> self_members]

\* line 77: except Exception
JsonCatches == "Exception"

\* lines 49-75, the try block: exc is the exception it raises
json_scrape_try(self_members, site) ==
    IF site.fetch # "" THEN Returned(site.fetch, FALSE, <<>>, self_members)
    ELSE IF ~site.script THEN Returned("", FALSE, <<>>, self_members)
    ELSE IF ~site.json_ok THEN Returned("JSONDecodeError", FALSE, <<>>, self_members)
    ELSE Returned("", TRUE, <<>>, self_members \o ParseAll(site.raw))

\* scrape_all_members(self) of ELEMembersJSONScraper
json_scrape_all_members(self_members, site) ==
    LET r == json_scrape_try(self_members, site)
    IN  IF r.exc # "" /\ IsInstance(r.exc, JsonCatches)
        THEN Returned("", FALSE, <<>>, r.members)
        ELSE r

----------------------------------------------------------------------------
(* The directory as the JSON scraper sees it *)

MaxPage == 2       \* most raw member objects on the directory page
NumThreads == 2    \* request threads of the serving process
MaxRuns == 2       \* most calls of scrape_all_members on one instance

RawAlice ==
    RawMember(Str(<<"A", " ", "B">>), Str(<<"A", "@", "B">>),
              Str(<<"[", "{linkedin:U}", "]">>), List(<< <<"Influencer">> >>),
              Str(<<"[", "member", ",", "ele_ambassador", "]">>),
              Str(<<"a", "@", "b">>), Str(<<"al">>))
RawNoName == RawMember(Str(<<>>), Str(<<"A">>), Missing, Missing, Missing, Missing, Missing)
RawBlankName == RawMember(Str(<<" ">>), Missing, Missing, Missing, Missing, Missing, Missing)

RawPool == {RawAlice, RawNoName, RawBlankName}

JsonSites ==
    {Site("ConnectionError", FALSE, FALSE, <<>>), Site("HTTPError", FALSE, FALSE, <<>>),
     Site("", FALSE, FALSE, <<>>), Site("", TRUE, FALSE, <<>>)}
    \cup {Site("", TRUE, TRUE, raw) : raw \in SeqsUpTo(RawPool, MaxPage)}

Threads == 1..NumThreads

----------------------------------------------------------------------------
(* railway_deploy.py *)

Routes == {"/", "/clay/status", "/clay/members", "/clay/members/search"}

RailwayQueries == {Missing, Str(<<"a">>)}

NoRequest == [route |-> "", q |-> Missing]
NoResponse == [route |-> "", status |-> 0, body |-> <<>>]
NoList == [is_self |-> FALSE, val |-> <<>>, failed |-> FALSE]
NoRun == [n |-> 0, failed |-> FALSE, path |-> "", exc |-> "", is_self |-> FALSE,
          val |-> <<>>, found |-> <<>>, discarded |-> 0]

Serving == mode \in {"railway", "railway_threaded"}

\* the list a thread's local scraper_members denotes
Deref(t) ==
    IF scraper_members[t].is_self THEN inst_members[self[t]] ELSE scraper_members[t].val

\* the mutant of ScraperIsNone: the global is never seen as set
ScraperIsNoneAlways == TRUE

\* line 21: scraper is None
ScraperIsNone == scraper = 0

\* a request arrives (the development server takes them one at a time, the
\* threaded server as they come); GET / is answered at once (health_check),
\* the other routes call initialize_scraper
Request(t) ==
    /\ Serving
    /\ pc[t] = "idle"
    /\ mode = "railway" => \A u \in Threads : pc[u] = "idle"
    /\ \E route \in Routes, q \in RailwayQueries :
        /\ (route # "/clay/members/search") => q = Missing
        /\ req' = [req EXCEPT ![t] = [route |-> route, q |-> q]]
        /\ IF route = "/"
           THEN /\ resp' = [resp EXCEPT ![t] = [route |-> route, status |-> 200, body |-> <<>>]]
                /\ pc' = pc
           ELSE /\ pc' = [pc EXCEPT ![t] = "check"]
                /\ resp' = [resp EXCEPT ![t] = NoResponse]
    /\ UNCHANGED <<mode, scraper, inst_members, members_data, self, scraper_members, idx,
                   started, run, pureVars>>

\* line 21
Check(t) ==
    /\ Serving
    /\ pc[t] = "check"
    /\ pc' = [pc EXCEPT ![t] = IF ScraperIsNone THEN "construct" ELSE "return"]
    /\ UNCHANGED <<mode, scraper, inst_members, members_data, req, self, scraper_members,
                   idx, resp, started, run, pureVars>>

\* line 23: scraper = ELEMembersJSONScraper()
Construct(t) ==
    /\ Serving
    /\ pc[t] = "construct"
    /\ inst_members' = Append(inst_members, <<>>)
    /\ scraper' = Len(inst_members) + 1
    /\ pc' = [pc EXCEPT ![t] = "call"]
    /\ UNCHANGED <<mode, members_data, req, self, scraper_members, idx, resp, started, run,
                   pureVars>>

\* line 24: scraper.scrape_all_members() is entered, on the instance the global
\* names now
CallScrape(t) ==
    /\ Serving
    /\ pc[t] = "call"
    /\ self' = [self EXCEPT ![t] = scraper]
    /\ started' = started + 1
    /\ pc' = [pc EXCEPT ![t] = "scraping"]
    /\ UNCHANGED <<mode, scraper, inst_members, members_data, req, scraper_members, idx,
                   resp, run, pureVars>>

\* line 24: scrape_all_members returns; initialize_scraper and the handlers
\* have no try, so an exception that escaped would end the request with a 500
ScrapeReturn(t) ==
    /\ Serving
    /\ pc[t] = "scraping"
    /\ \E site \in JsonSites :
        LET r == json_scrape_all_members(inst_members[self[t]], site)
        IN  /\ inst_members' = [inst_members EXCEPT ![self[t]] = r.members]
            /\ IF r.exc = ""
               THEN /\ scraper_members' =
                          [scraper_members EXCEPT
                              ![t] = [is_self |-> r.is_self, val |-> r.val,
                                      failed |-> site.fetch # ""]]
                    /\ pc' = [pc EXCEPT ![t] = "reset"]
                    /\ resp' = resp
               ELSE /\ scraper_members' = scraper_members
                    /\ pc' = [pc EXCEPT ![t] = "idle"]
                    /\ resp' = [resp EXCEPT ![t] =
                                   [route |-> req[t].route, status |-> 500, body |-> <<>>]]
    /\ UNCHANGED <<mode, scraper, members_data, req, self, idx, started, run, pureVars>>

\* line 27: members_data = []
Reset(t) ==
    /\ Serving
    /\ pc[t] = "reset"
    /\ members_data' = <<>>
    /\ idx' = [idx EXCEPT ![t] = 1]
    /\ pc' = [pc EXCEPT ![t] = "loop"]
    /\ UNCHANGED <<mode, scraper, inst_members, req, self, scraper_members, resp, started,
                   run, pureVars>>

\* lines 28-44: one turn of the loop, or its end
Loop(t) ==
    /\ Serving
    /\ pc[t] = "loop"
    /\ IF idx[t] <= Len(Deref(t))
       THEN /\ members_data' = Append(members_data, ClayDict(Deref(t)[idx[t]]))
            /\ idx' = [idx EXCEPT ![t] = idx[t] + 1]
            /\ pc' = pc
       ELSE /\ pc' = [pc EXCEPT ![t] = "return"]
            /\ UNCHANGED <<members_data, idx>>
    /\ UNCHANGED <<mode, scraper, inst_members, req, self, scraper_members, resp, started,
                   run, pureVars>>

\* what the handler makes of members = initialize_scraper()
Handle(request, data) ==
    CASE request.route = "/clay/status" ->
            [route |-> request.route, status |-> 200, body |-> data]
      [] request.route = "/clay/members" ->
            [route |-> request.route, status |-> 200, body |-> data]
      [] request.route = "/clay/members/search" ->
            LET r == clay_search_members(data, request.q)
            IN  [route |-> request.route, status |-> r.status, body |-> r.results]

\* line 48 and the rest of the handler: return members_data, and the response
Respond(t) ==
    /\ Serving
    /\ pc[t] = "return"
    /\ resp' = [resp EXCEPT ![t] = Handle(req[t], members_data)]
    /\ pc' = [pc EXCEPT ![t] = "idle"]
    /\ UNCHANGED <<mode, scraper, inst_members, members_data, req, self, scraper_members,
                   idx, started, run, pureVars>>

InitProcess ==
    /\ scraper = 0
    /\ members_data = <<>>
    /\ pc = [t \in Threads |-> "idle"]
    /\ req = [t \in Threads |-> NoRequest]
    /\ self = [t \in Threads |-> 0]
    /\ scraper_members = [t \in Threads |-> NoList]
    /\ idx = [t \in Threads |-> 1]
    /\ resp = [t \in Threads |-> NoResponse]
    /\ started = 0
    /\ run = NoRun
    /\ NoCall

\* the serving process under the threaded server: requests run concurrently
InitThreaded ==
    /\ mode = "railway_threaded"
    /\ inst_members = <<>>
    /\ InitProcess

NextThreaded ==
    \E t \in Threads :
        \/ Request(t)
        \/ Check(t)
        \/ Construct(t)
        \/ CallScrape(t)
        \/ ScrapeReturn(t)
        \/ Reset(t)
        \/ Loop(t)
        \/ Respond(t)

SpecThreaded == InitThreaded /\ [][NextThreaded]_vars

----------------------------------------------------------------------------
(* ele_members_scraper.py: ELEMembersScraper *)

DefaultRetries == 3

\* the mutant of GetPageCatches: only HTTP status errors are caught
GetPageCatchesHTTPError == "HTTPError"

\* line 76: except requests.exceptions.RequestException
GetPageCatches == "RequestException"

\* The result of get_page: the exception that escapes ("" for none), whether a
\* soup is returned (else None), the attempts made and the sleeps taken.
Fetched(exc, ok, attempts, sleeps) ==
    [exc |-> exc, ok |-> ok, attempts |-> attempts, sleeps |-> sleeps]

\* 2 ** n
RECURSIVE Pow2(_)
Pow2(n) == IF n = 0 THEN 1 ELSE 2 * Pow2(n - 1)

\* lines 65-84, from the given attempt on; outcomes[k] is what the k-th GET
\* does: "" for a 2xx answer, else the exception raised
RECURSIVE get_page_from(_, _, _, _)
get_page_from(outcomes, retries, attempt, sleeps) ==
    IF attempt >= retries THEN Fetched("", FALSE, attempt, sleeps)
    ELSE LET o == outcomes[attempt + 1]
         IN  IF o = "" THEN Fetched("", TRUE, attempt + 1, Append(sleeps, 1))
             ELSE IF ~IsInstance(o, GetPageCatches)
             THEN Fetched(o, FALSE, attempt + 1, sleeps)
             ELSE IF attempt < retries - 1
             THEN get_page_from(outcomes, retries, attempt + 1,
                                Append(sleeps, Pow2(attempt)))
             ELSE Fetched("", FALSE, attempt + 1, sleeps)

\* get_page(url, retries)
get_page(outcomes, retries) == get_page_from(outcomes, retries, 0, <<>>)

\* urljoin(self.base_url, href): an absolute address stays, a path is put
\* after the base
urljoin(base, href) == IF Head(href) = Head(base) THEN href ELSE base \o href

\* lines 101-108 and 111-117: the addresses of the anchors, without repeats;
\* an anchor without href is None
RECURSIVE CollectLinks(_, _)
CollectLinks(hrefs, member_links) ==
    IF hrefs = <<>> THEN member_links
    ELSE LET href == Head(hrefs)
             full_url == urljoin(base_url, href)
         IN  IF IsTrue(href) /\ ~InList(full_url, member_links)
             THEN CollectLinks(Tail(hrefs), Append(member_links, full_url))
             ELSE CollectLinks(Tail(hrefs), member_links)

\* extract_member_links(soup): soup.anchors are the anchors the selectors find,
\* in the order of the selectors, soup.pagination the pagination anchors
extract_member_links(soup) == CollectLinks(soup.pagination, CollectLinks(soup.anchors, <<>>))

\* elem.get_text(strip=True)
get_text(elem) == Strip(elem)

\* lines 137-141: the first candidate that is there and has text; "" if none
RECURSIVE FirstWithText(_)
FirstWithText(elems) ==
    IF elems = <<>> THEN <<>>
    ELSE IF Head(elems) # None /\ get_text(Head(elems)) # <<>> THEN get_text(Head(elems))
    ELSE FirstWithText(Tail(elems))

\* lines 152-156: the text of the first candidate that is there; None if none
RECURSIVE FirstPresent(_)
FirstPresent(elems) ==
    IF elems = <<>> THEN None
    ELSE IF Head(elems) # None THEN get_text(Head(elems))
    ELSE FirstPresent(Tail(elems))

\* lines 226-231: the first long paragraph that is no boilerplate
RECURSIVE FirstParagraph(_, _)
FirstParagraph(paragraphs, bio) ==
    IF paragraphs = <<>> THEN bio
    ELSE LET p == Head(paragraphs)
         IN  IF p.len > 50 /\ ~p.boilerplate THEN get_text(p.text)
             ELSE FirstParagraph(Tail(paragraphs), bio)

\* extract_member_info(soup, profile_url); nothing in the body raises on the
\* pages modelled, so the handler of line 235 is never entered
extract_member_info(soup, profile_url) ==
    LET name == FirstWithText(soup.names)
        bio == FirstPresent(soup.bios)
        member == MarkupMember(name, FirstPresent(soup.titles), FirstPresent(soup.companies),
                               FirstPresent(soup.locations), soup.email, soup.phone,
                               soup.linkedin, soup.website,
                               IF IsTrue(bio) THEN bio
                               ELSE FirstParagraph(soup.paragraphs, bio),
                               profile_url)
    IN  IF name # <<>> THEN member ELSE NoMember

\* lines 290-324: the members of the cards; a card gives, for each lookup, the
\* element select_one finds (None: nothing)
RECURSIVE extract_members_from_main_page(_)
extract_members_from_main_page(cards) ==
    IF cards = <<>> THEN <<>>
    ELSE LET elem == Head(cards)
             name == IF elem.name # None THEN get_text(elem.name) ELSE <<>>
             member == MarkupMember(name,
                                    IF elem.title # None THEN get_text(elem.title) ELSE None,
                                    IF elem.company # None THEN get_text(elem.company) ELSE None,
                                    IF elem.location # None THEN get_text(elem.location) ELSE None,
                                    elem.email, None, elem.linkedin, None, None, None)
         IN  (IF name # <<>> THEN <<member>> ELSE <<>>)
             \o extract_members_from_main_page(Tail(cards))

----------------------------------------------------------------------------
(* The directory as the markup scraper sees it *)

Profile(names, titles, companies, locations, email, linkedin, bios, paragraphs) ==
    [names |-> names, titles |-> titles, companies |-> companies, locations |-> locations,
     email |-> email, phone |-> None, linkedin |-> linkedin, website |-> None,
     bios |-> bios, paragraphs |-> paragraphs]

NoElems(n) == [i \in 1..n |-> None]

UrlAlice == <<"/members/", "al">>
UrlAnon == <<"/members/", "x">>
UrlPage2 == <<"/members", "?page=2">>

\* a profile with an h1 name, a title element without text and a company
ProfileAlice ==
    Profile(<<<<" ", "A", " ", "B">>, None, None, None, <<"Members">>>>,
            <<None, None, <<>>, None, None>>, <<<<"B">>, None, None, None>>, NoElems(4),
            <<"a", "@", "b">>, <<"linkedin.com/al">>, NoElems(5),
            <<[text |-> <<"Copyright">>, len |-> 60, boilerplate |-> TRUE],
              [text |-> <<"Bio">>, len |-> 51, boilerplate |-> FALSE]>>)

\* a page none of whose name candidates has text
ProfileAnon ==
    Profile(<<<<" ">>, None, None, None, None>>, NoElems(5), NoElems(4), NoElems(4),
            None, None, NoElems(5), <<>>)

\* a listing page: only its <title> names it
ProfileListing ==
    Profile(<<None, None, None, None, <<"Members">>>>, NoElems(5), NoElems(4), NoElems(4),
            None, None, NoElems(5), <<>>)

\* the page behind an address
ProfileAt(url) ==
    CASE url = base_url \o UrlAlice -> ProfileAlice
      [] url = base_url \o UrlAnon  -> ProfileAnon
      [] OTHER                      -> ProfileListing

Card(name, title, company, location) ==
    [name |-> name, title |-> title, company |-> company, location |-> location,
     email |-> None, linkedin |-> None]

CardAlice == Card(<<"A", " ">>, <<"A">>, None, <<>>)
CardAnon == Card(None, <<"A">>, None, None)
CardBlank == Card(<<" ">>, None, None, None)

\* What the site answers to one run: what the GETs of the directory page do,
\* the anchors and cards of that page, and the profile addresses whose every
\* GET fails.
MarkupSite(main, anchors, pagination, cards, down) ==
    [main |-> main, anchors |-> anchors, pagination |-> pagination, cards |-> cards,
     down |-> down]

MainOutcomes ==
    {<<"", "", "">>, <<"ConnectionError", "", "">>, <<"HTTPError", "Timeout", "">>,
     <<"ConnectionError", "HTTPError", "Timeout">>, <<"HTTPError", "HTTPError", "HTTPError">>}

MarkupSites ==
    {MarkupSite(main, anchors, pagination, cards, down) :
        main \in MainOutcomes,
        anchors \in {<<>>, <<UrlAlice>>, <<UrlAlice, None, UrlAnon, base_url \o UrlAlice>>},
        pagination \in {<<>>, <<UrlPage2>>},
        cards \in {<<>>, <<CardAlice, CardAnon>>, <<CardBlank>>},
        down \in {{}, {base_url \o UrlAlice}}}

\* what the GETs of a profile address do
LinkOutcomes(site, link) ==
    IF link \in site.down THEN [i \in 1..DefaultRetries |-> "ConnectionError"]
    ELSE [i \in 1..DefaultRetries |-> ""]

----------------------------------------------------------------------------
(* ELEMembersScraper.scrape_all_members *)

\* lines 258-270: the loop over member_links; [exc, members]
RECURSIVE CrawlLinks(_, _, _)
CrawlLinks(site, member_links, self_members) ==
    IF member_links = <<>> THEN [exc |-> "", members |-> self_members]
    ELSE LET link == Head(member_links)
             member_soup == get_page(LinkOutcomes(site, link), DefaultRetries)
             member == extract_member_info(ProfileAt(link), link)
         IN  IF member_soup.exc # "" THEN [exc |-> member_soup.exc, members |-> self_members]
             ELSE IF member_soup.ok /\ member # NoMember
             THEN CrawlLinks(site, Tail(member_links), Append(self_members, member))
             ELSE CrawlLinks(site, Tail(member_links), self_members)

\* scrape_all_members(self) of ELEMembersScraper
markup_scrape_all_members(self_members, site) ==
    LET soup == get_page(site.main, DefaultRetries)
        member_links == extract_member_links(site)
        crawled == CrawlLinks(site, member_links, self_members)
    IN  IF soup.exc # "" THEN Returned(soup.exc, FALSE, <<>>, self_members)
        ELSE IF ~soup.ok THEN Returned("", FALSE, <<>>, self_members)
        ELSE IF member_links = <<>>
        THEN Returned("", FALSE, extract_members_from_main_page(site.cards), self_members)
        ELSE Returned(crawled.exc, crawled.exc = "", <<>>, crawled.members)

----------------------------------------------------------------------------
(* The callers of one page fetch *)

MaxFetch == 3      \* GETs whose outcome is enumerated, and largest retries

FetchOutcomes == {""} \cup RequestExceptions

\* lines 50-51 and 77-79 of ele_members_json_scraper.py: the one GET of
\* scrape_all_members and what becomes of its failure
json_get(outcomes) ==
    LET r == json_scrape_all_members(<<>>, Site(outcomes[1], TRUE, TRUE, <<>>))
    IN  Fetched(r.exc, outcomes[1] = "", 1, <<>>)

InitFetch ==
    /\ op = "start"
    /\ \/ arg \in [caller : {"get_page"}, retries : 0..MaxFetch,
                   outcomes : [1..MaxFetch -> FetchOutcomes]]
       \/ arg \in [caller : {"scrape_all_members"}, retries : {DefaultRetries},
                   outcomes : [1..MaxFetch -> FetchOutcomes]]
    /\ ret = Fetched("", FALSE, 0, <<>>)
    /\ NoProgram

\* soup = self.get_page(url, retries) of ELEMembersScraper
GetPage ==
    /\ op = "start"
    /\ arg.caller = "get_page"
    /\ ret' = get_page(arg.outcomes, arg.retries)
    /\ op' = "done"
    /\ UNCHANGED <<arg, mainVars>>

\* response = self.session.get(self.members_url, timeout=30) of
\* ELEMembersJSONScraper.scrape_all_members
JsonGet ==
    /\ op = "start"
    /\ arg.caller = "scrape_all_members"
    /\ ret' = json_get(arg.outcomes)
    /\ op' = "done"
    /\ UNCHANGED <<arg, mainVars>>

NextFetch == GetPage \/ JsonGet

SpecFetch == InitFetch /\ [][NextFetch]_vars

----------------------------------------------------------------------------
(* A caller of one scraper instance, and the programs together *)

\* what a finished call leaves to look at: its number, whether every GET of
\* the directory page failed, the path taken, the exception that escaped, the
\* list returned, the records the call discovered (what it leaves in a fresh
\* instance, or returns) and how many raw objects or fragments it dropped
Run(n, failed, path, r, found, discarded) ==
    [n |-> n, failed |-> failed, path |-> path, exc |-> r.exc, is_self |-> r.is_self,
     val |-> r.val, found |-> found, discarded |-> discarded]

\* ELEMembersJSONScraper: scraper.scrape_all_members()
JsonScrapeAll ==
    /\ mode = "json"
    /\ run.n < MaxRuns
    /\ \E site \in JsonSites :
        LET r == json_scrape_all_members(inst_members[1], site)
        IN  /\ inst_members' = [inst_members EXCEPT ![1] = r.members]
            /\ run' = Run(run.n + 1, site.fetch # "", "json", r,
                          json_scrape_all_members(<<>>, site).members,
                          IF r.is_self THEN Len(site.raw) - Len(ParseAll(site.raw)) ELSE 0)
    /\ started' = started + 1
    /\ UNCHANGED <<mode, scraper, members_data, pc, req, self, scraper_members, idx, resp,
                   pureVars>>

\* ELEMembersScraper: scraper.scrape_all_members()
MarkupScrapeAll ==
    /\ mode = "markup"
    /\ run.n < MaxRuns
    /\ \E site \in MarkupSites :
        LET r == markup_scrape_all_members(inst_members[1], site)
            soup == get_page(site.main, DefaultRetries)
            path == IF ~soup.ok THEN "none"
                    ELSE IF extract_member_links(site) = <<>> THEN "cards" ELSE "links"
            found == IF path = "cards" THEN r.val
                     ELSE markup_scrape_all_members(<<>>, site).members
        IN  /\ inst_members' = [inst_members EXCEPT ![1] = r.members]
            /\ run' = Run(run.n + 1, ~soup.ok, path, r, found,
                          CASE path = "cards" -> Len(site.cards) - Len(found)
                            [] path = "links" -> Len(extract_member_links(site)) - Len(found)
                            [] OTHER -> 0)
    /\ started' = started + 1
    /\ UNCHANGED <<mode, scraper, members_data, pc, req, self, scraper_members, idx, resp,
                   pureVars>>

\* the serving process (requests one at a time), or a caller of a scraper
Init ==
    /\ \/ mode = "railway" /\ inst_members = <<>>
       \/ mode \in {"json", "markup"} /\ inst_members = << <<>> >>
    /\ InitProcess

Next ==
    \/ \E t \in Threads :
        \/ Request(t)
        \/ Check(t)
        \/ Construct(t)
        \/ CallScrape(t)
        \/ ScrapeReturn(t)
        \/ Reset(t)
        \/ Loop(t)
        \/ Respond(t)
    \/ JsonScrapeAll
    \/ MarkupScrapeAll

Spec == Init /\ [][Next]_vars

----------------------------------------------------------------------------
(* Properties of the serving process and of the scrapers (checked under    *)
(* Spec, where requests are served one at a time, and under SpecThreaded)  *)

StatusRoutes == {"/", "/clay/status"}

\* C1: with requests served one after the other, scrape_all_members is entered
\* at most once in the life of the process, and every answer to /clay/status
\* and /clay/members is made of the members_data that the one run left.
C1_LazyOneTimeInit ==
    mode = "railway" =>
        /\ started <= 1
        /\ \A t \in Threads :
              (resp[t].route \in {"/clay/status", "/clay/members"} /\ resp[t].status = 200)
                  => resp[t].body = members_data

\* every thread has been answered the member list of the one run
C1_Witness ==
    /\ mode = "railway"
    /\ started = 1
    /\ \A t \in Threads :
          resp[t].route = "/clay/members" /\ resp[t].status = 200 /\ resp[t].body # <<>>

\* C2: with concurrent requests, at most one scrape run is ever started and
\* no two runs are in progress at once.
C2_AtMostOneScrapeRun ==
    /\ started <= 1
    /\ Cardinality({t \in Threads : pc[t] = "scraping"}) <= 1

\* C3: no step of the handling of GET / or GET /clay/status changes the
\* number of scrape runs started.
C3_StatusNeverScrapes ==
    [][\A t \in Threads :
          (/\ <<pc[t], req[t], resp[t]>>' # <<pc[t], req[t], resp[t]>>
           /\ req'[t].route \in StatusRoutes)
              => started' = started]_vars

\* C6: a run whose every GET of the directory page failed returns an empty
\* list and lets no exception escape, in both scrapers; the serving process
\* then holds no record and answers no request with a server error.
C6_FailedFetchGivesEmptyRun ==
    /\ (run.n > 0 /\ run.failed) => (run.exc = "" /\ ~run.is_self /\ run.val = <<>>)
    /\ \A t \in Threads :
          /\ resp[t].status # 500
          /\ scraper_members[t].failed =>
                /\ ~scraper_members[t].is_self
                /\ scraper_members[t].val = <<>>
                /\ members_data = <<>>

\* a run of the markup scraper whose three GETs of the directory page failed
C6_Witness ==
    /\ mode = "markup"
    /\ run.n > 0
    /\ run.failed
    /\ run.val = <<>>

\* C7: after a run that returned the collection, the instance holds exactly
\* the records that run discovered, whatever the runs before it left.
C7_RunReplacesCollection ==
    (mode \in {"json", "markup"} /\ run.n > 0 /\ run.is_self) => inst_members[1] = run.found

\* C8: every record of every collection has a name that is not empty:
\* self.members of every scraper instance, the list returned by
\* extract_members_from_main_page, and members_data.
C8_NamesNonEmpty ==
    /\ \A i \in 1..Len(inst_members) :
          \A j \in 1..Len(inst_members[i]) : IsTrue(inst_members[i][j].name)
    /\ \A j \in 1..Len(run.val) : IsTrue(run.val[j].name)
    /\ \A j \in 1..Len(members_data) : IsTrue(members_data[j].name)

\* a run dropped a nameless raw object or fragment and kept a named one
C8_Witness ==
    /\ run.n > 0
    /\ run.discarded > 0
    /\ run.found # <<>>
    /\ inst_members[1] = run.found

\* the fields of a record other than its name (and, in members_data, the
\* derived id and the constant source)
OptionalFields(rec) == DOMAIN rec \ {"name", "id", "source"}

\* C12: no optional field of a record holds the empty string: in self.members
\* of every scraper instance, in the list a run returns, and in members_data,
\* a value that the source data does not give is None.
C12_AbsentIsNoneNeverEmpty ==
    /\ \A i \in 1..Len(inst_members) :
          \A j \in 1..Len(inst_members[i]) :
              \A f \in OptionalFields(inst_members[i][j]) : inst_members[i][j][f] # <<>>
    /\ \A j \in 1..Len(run.val) :
          \A f \in OptionalFields(run.val[j]) : run.val[j][f] # <<>>
    /\ \A j \in 1..Len(members_data) :
          \A f \in OptionalFields(members_data[j]) : members_data[j][f] # <<>>

\* C15: when scrape_all_members of the markup scraper returns, the list it
\* returns has the records of self.members: it is that list itself, or a list
\* equal to it (failed fetch, fallback to the cards of the main page).
C15_ReturnedListIsMembers ==
    (mode = "markup" /\ run.n > 0) => (run.is_self \/ run.val = inst_members[1])

\* the positions of initialize_scraper between the check of line 21 and the
\* end of the loop of lines 28-44: a run is being started, is in progress, or
\* its records are being copied into members_data
Initializing == {"construct", "call", "scraping", "reset", "loop"}

\* the members_data that a finished run over the records ms leaves
ClayList(ms) == [j \in 1..Len(ms) |-> ClayDict(ms[j])]

\* C16: whenever initialize_scraper returns members_data to a handler, no
\* thread is in the middle of the initialization, a scrape run has finished,
\* and the list is the complete conversion of the records the scraper holds.
C16_ReturnedListIsFinishedRun ==
    [][\A t \in Threads :
          (pc[t] = "return" /\ pc'[t] = "idle") =>
              /\ \A u \in Threads : pc[u] \notin Initializing
              /\ scraper # 0
              /\ members_data = ClayList(inst_members[scraper])]_vars

----------------------------------------------------------------------------
(* Properties of the search handlers (checked under SpecSearch) *)

\* a field holds the query: the field is there and its lower-cased value
\* contains the lower-cased query
FieldHas(v, query) == v # None /\ Contains(Lower(v), query)

AnyFieldHas(m, query) ==
    \/ FieldHas(m.name, query)
    \/ FieldHas(m.title, query)
    \/ FieldHas(m.company, query)
    \/ FieldHas(m.location, query)

\* C4: a search with a non-empty query returns exactly the records one of
\* whose name, title, company or location contains the query, case ignored,
\* in both handlers.
C4_SearchAnyField ==
    (op = "done" /\ QueryArg(arg.q) # <<>>) =>
        LET Hit(m) == AnyFieldHas(m, QueryArg(arg.q))
        IN  ret.results = SelectSeq(arg.members, Hit)

\* C5: a search without q (or with an empty q) is answered, by both
\* handlers, with a 4xx status and a body that carries a message, and no
\* result list is computed.
C5_MissingQueryIsClientError ==
    (op = "done" /\ QueryArg(arg.q) = <<>>) =>
        /\ ret.status \in 400..499
        /\ IsTrue(ret.message)
        /\ ~ret.searched

----------------------------------------------------------------------------
(* Properties of parse_member (checked under SpecParse) *)

\* C9: a raw object with a non-empty display_name yields a Member whose name
\* is the display_name with the surrounding whitespace removed.
C9_NameIsTrimmedDisplayName ==
    (op = "done" /\ Truthy(Get(arg.display_name, Str(<<>>)))) =>
        /\ ret # NoMember
        /\ ret.name = Strip(arg.display_name.s)

\* C10: a position string is cut at its first '@' only: the title is the
\* trimmed text before it, the company the trimmed text after it; a non-empty
\* position without '@' is the title as it stands, and the company is absent.
C10_SplitAtFirstAt ==
    (op = "done" /\ ret # NoMember /\ arg.position.k = "str" /\ arg.position.s # <<>>) =>
        LET p == arg.position.s
        IN  IF \E i \in 1..Len(p) : p[i] = "@"
            THEN \E i \in 1..Len(p) :
                    /\ p[i] = "@"
                    /\ \A j \in 1..(i - 1) : p[j] # "@"
                    /\ ret.title = Strip(SubSeq(p, 1, i - 1))
                    /\ ret.company = Strip(SubSeq(p, i + 1, Len(p)))
            ELSE ret.title = p /\ ret.company = None

\* the documented example "A @ B @ C" has been parsed
C10_Witness ==
    /\ op = "done"
    /\ arg.position = Str(<<"A", " ", "@", " ", "B", " ", "@", " ", "C">>)
    /\ ret # NoMember
    /\ ret.title = <<"A">>
    /\ ret.company = <<"B", " ", "@", " ", "C">>

----------------------------------------------------------------------------
(* Properties of determine_member_type (checked under SpecRoles) *)

\* the set of identifiers of a role list: what is left of it when the order
\* of the input is forgotten
RoleSet(roles) == {roles[i] : i \in 1..Len(roles)}

\* the ranks of the table entries whose identifier occurs in the list
RanksIn(roles) == {k \in 1..Len(role_priority) : role_priority[k][1] \in RoleSet(roles)}

\* C11: determine_member_type returns "Standard Member" for the empty list, else
\* the label of the most senior table entry whose identifier is anywhere in the
\* list (whatever the order of the list), else all identifiers joined with ", ".
C11_MemberTypeIsReference ==
    op = "done" =>
        /\ ret.exc = ""
        /\ arg = <<>> => ret.v = <<"Standard Member">>
        /\ (arg # <<>> /\ RanksIn(arg) # {}) =>
              ret.v = <<role_priority[CHOOSE k \in RanksIn(arg) :
                                         \A j \in RanksIn(arg) : k <= j][2]>>
        /\ (arg # <<>> /\ RanksIn(arg) = {}) =>
              ret.v = Join(<<", ">>, [i \in 1..Len(arg) |-> <<arg[i]>>])

\* the list ["member", "ele_ambassador"] has been classified as "Ambassador"
C11_Witness ==
    /\ op = "done"
    /\ arg = <<"member", "ele_ambassador">>
    /\ ret = [exc |-> "", v |-> <<"Ambassador">>]

----------------------------------------------------------------------------
(* Properties of a page fetch (checked under SpecFetch) *)

\* the attempts, within the limit, whose GET gets a 2xx answer
Successes(outcomes, limit) == {k \in 1..limit : outcomes[k] = ""}

\* C13: a page fetch with retry limit n (get_page's retries; the default limit
\* for the GET of the JSON scraper) makes its attempts in order until the first
\* success or until n attempts have failed, waits between two attempts a delay
\* that doubles after each failed attempt, and raises nothing when all fail.
C13_FetchRetriesWithBackoff ==
    op = "done" =>
        LET wins == Successes(arg.outcomes, arg.retries)
        IN  /\ ret.exc = ""
            /\ ret.ok = (wins # {})
            /\ ret.attempts = IF wins = {} THEN arg.retries
                              ELSE CHOOSE k \in wins : \A j \in wins : k <= j
            /\ Len(ret.sleeps) >= ret.attempts - 1
            /\ \A i \in 1..(ret.attempts - 1) :
                  /\ ret.sleeps[i] > 0
                  /\ i > 1 => ret.sleeps[i] = 2 * ret.sleeps[i - 1]

\* a raw field that is present (truthy) but is no string that decodes to a
\* JSON array: json.loads of it, or the loop over its value, fails
DecodeFails(v, default) ==
    LET x == Get(v, default)
    IN  Truthy(x) /\ (x.k # "str" \/ ~IsJsonArray(x.s))

\* a raw field that is present (truthy) but not of the kind the code expects
WrongKind(v, default, kind) ==
    LET x == Get(v, default)
    IN  Truthy(x) /\ x.k # kind

\* C14: whatever fails in socials, role_cap, badges or position, parse_member
\* still returns the record of a named raw object, and the field whose
\* parsing failed is None in it.
C14_FieldFailureLeavesFieldAbsent ==
    (op = "done" /\ Truthy(Get(arg.display_name, Str(<<>>)))) =>
        /\ ret # NoMember
        /\ DecodeFails(arg.socials, Str(<<"[", "]">>)) => ret.linkedin = None
        /\ DecodeFails(arg.role_cap, Str(<<"[", "]">>)) => ret.member_type = None
        /\ WrongKind(arg.badges, List(<<>>), "list") => ret.badges = None
        /\ WrongKind(arg.position, Str(<<>>), "str") =>
              (ret.title = None /\ ret.company = None)

====
